---- MODULE Spec2Model ----
(***************************************************************************)
(* Model of the mutate-repo-policy admission policy:                       *)
(*   src/src/image.rs    ImageRef, is_registry, ImageRef::parse, Display   *)
(*   src/src/lib.rs      validate, mutate_pod, mutate_containers           *)
(*   src/src/settings.rs Settings { repos: HashMap<String, String> }       *)
(*                                                                         *)
(* A Rust String is a sequence of one-character strings.  An Option<T> is  *)
(* a sequence of length at most one: None is << >>, Some(x) is << x >>.    *)
(***************************************************************************)
EXTENDS Integers, Sequences, FiniteSets, TLC

VARIABLES input, stage, parsed, canonical, reparsed,
          request, repos, response

vars == <<input, stage, parsed, canonical, reparsed, request, repos, response>>

None == << >>
Some(x) == << x >>

(***************************************************************************)
(* Bounds of the model.                                                    *)
(***************************************************************************)
\* longest input of ImageRef::parse, in tokens
MaxLen == 4
\* longest container image of a single-container pod, in tokens
MaxImgTokens == 3
\* longest containers list of a pod
MaxContainers == 2
\* longest init_containers list of a pod
MaxInit == 1
\* largest number of entries of Settings.repos
MaxRepos == 2

(***************************************************************************)
(* String literals of the source.                                          *)
(***************************************************************************)
DockerIo == <<"d", "o", "c", "k", "e", "r", ".", "i", "o">>
Localhost == <<"l", "o", "c", "a", "l", "h", "o", "s", "t">>
Library == <<"l", "i", "b", "r", "a", "r", "y">>
LibrarySlash == Library \o <<"/">>
Latest == <<"l", "a", "t", "e", "s", "t">>

(***************************************************************************)
(* std::str operations the source calls.                                   *)
(***************************************************************************)
RECURSIVE FindFrom(_, _, _)
FindFrom(s, c, i) ==
    IF i > Len(s) THEN 0
    ELSE IF s[i] = c THEN i
    ELSE FindFrom(s, c, i + 1)

\* str::find(char): the 1-based position of the first c, 0 for Option::None
Find(s, c) == FindFrom(s, c, 1)

\* str::contains(char), chars().any(|x| x == c)
Contains(s, c) == Find(s, c) # 0

\* str::splitn that yields no part at all for the empty string
SplitN2Empty(s, c) ==
    LET p == Find(s, c)
    IN  IF s = << >> THEN << >>
        ELSE IF p = 0 THEN <<s>>
        ELSE <<SubSeq(s, 1, p - 1), SubSeq(s, p + 1, Len(s))>>

\* str::splitn(2, c).collect(): one part when c is absent (also for ""),
\* otherwise the text before the first c and the text after it
SplitN2(s, c) ==
    LET p == Find(s, c)
    IN  IF p = 0 THEN <<s>>
        ELSE <<SubSeq(s, 1, p - 1), SubSeq(s, p + 1, Len(s))>>

\* str::starts_with(&str)
StartsWith(s, p) == Len(p) <= Len(s) /\ SubSeq(s, 1, Len(p)) = p

\* str::replace(&str, &str): every non-overlapping match, left to right; the
\* empty pattern matches at every character boundary, the end included
RECURSIVE Replace(_, _, _)
Replace(s, from, to) ==
    IF from = << >>
    THEN IF s = << >> THEN to
         ELSE to \o <<Head(s)>> \o Replace(Tail(s), from, to)
    ELSE IF Len(s) < Len(from) THEN s
    ELSE IF StartsWith(s, from)
         THEN to \o Replace(SubSeq(s, Len(from) + 1, Len(s)), from, to)
    ELSE <<Head(s)>> \o Replace(Tail(s), from, to)

(***************************************************************************)
(* image.rs                                                                *)
(***************************************************************************)
\* is_registry without the port rule
IsRegistryNoPort(token) == token = Localhost \/ Contains(token, ".")

is_registry(token) ==
    token = Localhost \/ Contains(token, ".") \/ Contains(token, ":")

\* the value a panicking parse never returns
Panicked == [panic |-> TRUE]

\* the first part of ImageRef::parse: the registry and the remainder
SplitRegistry(s) ==
    LET parts == SplitN2(s, "/")
    IN  IF Len(parts) = 2 /\ is_registry(parts[1])
        THEN [registry |-> Some(parts[1]), image_full |-> parts[2]]
        ELSE [registry |-> Some(DockerIo), image_full |-> s]

\* the namespace injected without its separator
InjectLibraryNoSlash(registry, image_full) ==
    IF ~Contains(image_full, "/") /\ registry[1] = DockerIo
    THEN Library \o image_full
    ELSE image_full

\* the namespace injected whatever the registry is
InjectLibraryAnyRegistry(registry, image_full) ==
    IF ~Contains(image_full, "/")
    THEN LibrarySlash \o image_full
    ELSE image_full

\* the second part of ImageRef::parse: the default namespace
InjectLibrary(registry, image_full) ==
    IF ~Contains(image_full, "/") /\ registry[1] = DockerIo
    THEN LibrarySlash \o image_full
    ELSE image_full

\* the tag separator looked for before the digest separator
SplitTagThenHash(image_full) ==
    IF Contains(image_full, ":")
    THEN LET parts == SplitN2(image_full, ":")
         IN  [panic |-> FALSE, image |-> parts[1], tag |-> Some(parts[2]), hash |-> None]
    ELSE LET at_pos == Find(image_full, "@")
         IN  IF at_pos # 0
             THEN [panic |-> FALSE,
                   image |-> SubSeq(image_full, 1, at_pos - 1),
                   hash |-> Some(SubSeq(image_full, at_pos + 1, Len(image_full))),
                   tag |-> None]
             ELSE [panic |-> FALSE, image |-> image_full, tag |-> Some(Latest),
                   hash |-> None]

\* the third part of ImageRef::parse: the repository and its tag or digest;
\* panic is TRUE when an index or a slice the code takes is out of bounds
SplitTagOrHash(image_full) ==
    LET at_pos == Find(image_full, "@")
    IN  IF at_pos # 0
        THEN LET image == SubSeq(image_full, 1, at_pos - 1)
                 hash == SubSeq(image_full, at_pos, Len(image_full))
             IN  [panic |-> Len(hash) < 1,
                  image |-> image,
                  hash |-> Some(SubSeq(hash, 2, Len(hash))),
                  tag |-> None]
        ELSE LET parts == SplitN2(image_full, ":")
             IN  [panic |-> Len(parts) < 1,
                  image |-> IF Len(parts) >= 1 THEN parts[1] ELSE << >>,
                  tag |-> Some(IF Len(parts) >= 2 THEN parts[2] ELSE Latest),
                  hash |-> None]

\* ImageRef::parse with its local image_full
ParseLocals(s) ==
    LET head == SplitRegistry(s)
        image_full == InjectLibrary(head.registry, head.image_full)
        rest == SplitTagOrHash(image_full)
    IN  [panic |-> rest.panic,
         image_full |-> image_full,
         registry |-> head.registry,
         image |-> rest.image,
         tag |-> rest.tag,
         hash |-> rest.hash]

\* ImageRef::parse: the ImageRef it returns, or Panicked
parse(s) ==
    LET l == ParseLocals(s)
    IN  IF l.panic THEN Panicked
        ELSE [panic |-> FALSE, registry |-> l.registry, image |-> l.image,
              tag |-> l.tag, hash |-> l.hash]

\* a Display that leaves the default registry out
ToStringShort(r) ==
    (IF r.registry # None /\ r.registry # Some(DockerIo)
     THEN r.registry[1] \o <<"/">> ELSE << >>)
    \o r.image
    \o (IF r.tag # None THEN <<":">> \o r.tag[1]
        ELSE IF r.hash # None THEN <<"@">> \o r.hash[1]
        ELSE << >>)

\* impl fmt::Display for ImageRef
to_string(r) ==
    (IF r.registry # None THEN r.registry[1] \o <<"/">> ELSE << >>)
    \o r.image
    \o (IF r.tag # None THEN <<":">> \o r.tag[1]
        ELSE IF r.hash # None THEN <<"@">> \o r.hash[1]
        ELSE << >>)

(***************************************************************************)
(* Inputs of ImageRef::parse: every concatenation of at most MaxLen tokens *)
(***************************************************************************)
Tokens == {DockerIo, Localhost, Library, <<"a">>, <<"/">>, <<":">>, <<"@">>, <<".">>}

RECURSIVE Concats(_, _)
Concats(toks, n) ==
    IF n = 0 THEN {<< >>}
    ELSE LET prev == Concats(toks, n - 1)
         IN  prev \cup {p \o t : p \in prev, t \in toks}

Inputs == Concats(Tokens, MaxLen)

NoRef == [panic |-> FALSE, registry |-> None, image |-> << >>,
          tag |-> None, hash |-> None]

InitParse ==
    /\ input \in Inputs
    /\ stage = "input"
    /\ parsed = NoRef
    /\ canonical = << >>
    /\ reparsed = NoRef
    /\ request = [kind |-> "none"]
    /\ repos = << >>
    /\ response = [kind |-> "none"]

\* ImageRef::parse(s)
DoParse ==
    /\ stage = "input"
    /\ parsed' = parse(input)
    /\ stage' = IF parsed'.panic THEN "panicked" ELSE "parsed"
    /\ UNCHANGED <<input, canonical, reparsed, request, repos, response>>

\* ImageRef::parse(s).to_string()
DoToString ==
    /\ stage = "parsed"
    /\ canonical' = to_string(parsed)
    /\ stage' = "canonical"
    /\ UNCHANGED <<input, parsed, reparsed, request, repos, response>>

\* ImageRef::parse of the canonical form
DoReparse ==
    /\ stage = "canonical"
    /\ reparsed' = parse(canonical)
    /\ stage' = IF reparsed'.panic THEN "panicked" ELSE "reparsed"
    /\ UNCHANGED <<input, parsed, canonical, request, repos, response>>

NextParse == DoParse \/ DoToString \/ DoReparse

SpecParse == InitParse /\ [][NextParse]_vars

(***************************************************************************)
(* lib.rs and settings.rs                                                  *)
(*                                                                         *)
(* A Container is [name, image]: image is the Option<String> the policy    *)
(* rewrites, name stands for every other field.  Settings.repos is a       *)
(* HashMap: the request carries its entries in the order of the payload,   *)
(* and repos holds them in the order the map iterates them, which the      *)
(* HashMap leaves unspecified and clone() keeps.                           *)
(***************************************************************************)
\* the for loop of mutate_containers without its break: the last match wins
RECURSIVE ScanReposNoBreak(_, _, _, _)
ScanReposNoBreak(image, map, i, current) ==
    IF i > Len(map) THEN current
    ELSE IF StartsWith(image, map[i].src)
         THEN ScanReposNoBreak(image, map, i + 1,
                               Some(Replace(image, map[i].src, map[i].dest)))
    ELSE ScanReposNoBreak(image, map, i + 1, current)

\* for (src, dest) in repos.clone().into_iter() { .. break; }: the value of
\* ctr.image after the loop, entered at the i-th entry with ctr.image = current
RECURSIVE ScanRepos(_, _, _, _)
ScanRepos(image, map, i, current) ==
    IF i > Len(map) THEN current
    ELSE IF StartsWith(image, map[i].src)
         THEN Some(Replace(image, map[i].src, map[i].dest))
    ELSE ScanRepos(image, map, i + 1, current)

\* a closure that writes the canonical form back before it scans
MutateContainerCanonical(container, map) ==
    IF container.image # None
    THEN LET image == to_string(parse(container.image[1]))
         IN  [container EXCEPT !.image = ScanRepos(image, map, 1, Some(image))]
    ELSE container

\* the closure of mutate_containers: one container
MutateContainer(container, map) ==
    IF container.image # None
    THEN LET image == to_string(parse(container.image[1]))
         IN  [container EXCEPT !.image = ScanRepos(image, map, 1, container.image)]
    ELSE container

\* a mutate_containers that drops the containers without an image
RECURSIVE MutateContainersSkipNoImage(_, _)
MutateContainersSkipNoImage(containers, map) ==
    IF containers = << >> THEN << >>
    ELSE IF Head(containers).image = None
         THEN MutateContainersSkipNoImage(Tail(containers), map)
    ELSE <<MutateContainer(Head(containers), map)>>
         \o MutateContainersSkipNoImage(Tail(containers), map)

mutate_containers(containers, map) ==
    [i \in 1..Len(containers) |-> MutateContainer(containers[i], map)]

\* pod.spec is Some here: validate traps in pod.spec.unwrap() otherwise
mutate_pod(pod, map) ==
    LET pod_spec == pod.spec[1]
        containers == mutate_containers(pod_spec.containers, map)
        init_containers ==
            IF pod_spec.init_containers # None
            THEN Some(mutate_containers(pod_spec.init_containers[1], map))
            ELSE pod_spec.init_containers
    IN  [pod EXCEPT !.spec = Some([containers |-> containers,
                                   init_containers |-> init_containers])]

(***************************************************************************)
(* Requests.                                                               *)
(***************************************************************************)
ImgTokens == {DockerIo, <<"a", ".">>, <<"/">>, <<"a">>}

Images == Concats(ImgTokens, MaxImgTokens)

ListImages == {None, Some(<<"a">>), Some(<<"a", ".", "/", "a", ".">>)}

RepoPairs ==
    {[src |-> DockerIo, dest |-> DockerIo \o <<"/">> \o Library],
     [src |-> DockerIo, dest |-> <<"m">>],
     [src |-> DockerIo \o <<"/">> \o Library, dest |-> <<"m">>],
     [src |-> <<"a", ".">>, dest |-> DockerIo],
     [src |-> << >>, dest |-> <<"m">>]}

\* the entries of a settings payload, in the order of the payload
SettingsPayloads ==
    {m \in UNION {[1..n -> RepoPairs] : n \in 0..MaxRepos} :
        \A i, j \in 1..Len(m) : m[i].src = m[j].src => i = j}

ContainerLists(n) ==
    UNION {{[i \in 1..k |-> [name |-> i, image |-> f[i]]] : f \in [1..k -> ListImages]} :
           k \in 0..n}

Pods ==
    {[spec |-> None]}
    \cup {[spec |-> Some([containers |-> <<[name |-> 1, image |-> Some(s)]>>,
                          init_containers |-> None])] : s \in Images}
    \cup {[spec |-> Some([containers |-> cs, init_containers |-> ics])] :
             cs \in ContainerLists(MaxContainers),
             ics \in {None} \cup {Some(l) : l \in ContainerLists(MaxInit)}}

\* the orders in which a HashMap of these entries may iterate
IterationOrders(m) ==
    {q \in [1..Len(m) -> {m[i] : i \in 1..Len(m)}] :
        \A i, j \in 1..Len(m) : q[i] = q[j] => i = j}

Init ==
    /\ \/ request \in {[kind |-> "invalid"], [kind |-> "other"]}
       \/ \E pod \in Pods, m \in SettingsPayloads :
             request = [kind |-> "pod", pod |-> pod, settings |-> m]
    /\ repos = << >>
    /\ response = [kind |-> "none"]
    /\ input = << >>
    /\ stage = "idle"
    /\ parsed = NoRef
    /\ canonical = << >>
    /\ reparsed = NoRef

\* validate: ValidationRequest::new(payload)? fails
ValidateInvalid ==
    /\ response.kind = "none"
    /\ request.kind = "invalid"
    /\ response' = [kind |-> "error"]
    /\ UNCHANGED <<input, stage, parsed, canonical, reparsed, request, repos>>

\* validate: the object is no Pod, the request is accepted as it is
ValidateAccept ==
    /\ response.kind = "none"
    /\ request.kind = "other"
    /\ response' = [kind |-> "accept"]
    /\ UNCHANGED <<input, stage, parsed, canonical, reparsed, request, repos>>

\* validate: mutate_pod traps in pod.spec.unwrap()
ValidatePanic ==
    /\ response.kind = "none"
    /\ request.kind = "pod"
    /\ request.pod.spec = None
    /\ \E order \in IterationOrders(request.settings) : repos' = order
    /\ response' = [kind |-> "panic"]
    /\ UNCHANGED <<input, stage, parsed, canonical, reparsed, request>>

\* validate: the pod is mutated and returned
ValidateMutate ==
    /\ response.kind = "none"
    /\ request.kind = "pod"
    /\ request.pod.spec # None
    /\ \E order \in IterationOrders(request.settings) :
          /\ repos' = order
          /\ response' = [kind |-> "mutate", pod |-> mutate_pod(request.pod, order)]
    /\ UNCHANGED <<input, stage, parsed, canonical, reparsed, request>>

Next == ValidateInvalid \/ ValidateAccept \/ ValidatePanic \/ ValidateMutate

Spec == Init /\ [][Next]_vars

(***************************************************************************)
(* Vocabulary of the properties, stated on positions rather than by the    *)
(* scans above.                                                            *)
(***************************************************************************)
HasChar(s, c) == \E i \in 1..Len(s) : s[i] = c

FirstIdx(s, c) ==
    CHOOSE i \in 1..Len(s) : s[i] = c /\ \A j \in 1..(i - 1) : s[j] # c

TextBefore(s, c) == SubSeq(s, 1, FirstIdx(s, c) - 1)

TextAfter(s, c) == SubSeq(s, FirstIdx(s, c) + 1, Len(s))

LooksLikeRegistry(t) == t = Localhost \/ HasChar(t, ".") \/ HasChar(t, ":")

HasExplicitRegistry(s) == HasChar(s, "/") /\ LooksLikeRegistry(TextBefore(s, "/"))

\* the registry an input names, and the remainder after it
RegistryOf(s) == IF HasExplicitRegistry(s) THEN TextBefore(s, "/") ELSE DockerIo

Remainder(s) == IF HasExplicitRegistry(s) THEN TextAfter(s, "/") ELSE s

\* whether the default namespace is due
NamespaceDue(s) == RegistryOf(s) = DockerIo /\ ~HasChar(Remainder(s), "/")

\* the remainder as the repository, tag and digest are read from it
Qualified(s) == IF NamespaceDue(s) THEN LibrarySlash \o Remainder(s) ELSE Remainder(s)

EndsWith(s, c) == Len(s) >= 1 /\ s[Len(s)] = c

\* the text of the tag or of the digest of a parse result
Suffix(r) == IF r.tag # None THEN r.tag[1] ELSE IF r.hash # None THEN r.hash[1] ELSE << >>

(***************************************************************************)
(* C1. Round trip: parsing the serialized form of ImageRef::parse(s) gives *)
(* a value equal to ImageRef::parse(s) in registry, image, tag and hash.   *)
(***************************************************************************)
C1_RoundTrip ==
    stage \in {"reparsed", "panicked"} =>
        /\ stage = "reparsed"
        /\ reparsed.registry = parsed.registry
        /\ reparsed.image = parsed.image
        /\ reparsed.tag = parsed.tag
        /\ reparsed.hash = parsed.hash

\* a round trip of an input that is not in canonical form
C1_Witness ==
    /\ stage = "reparsed"
    /\ canonical # input
    /\ reparsed = parsed
    /\ parsed.registry = Some(DockerIo)
    /\ HasExplicitRegistry(input)

(***************************************************************************)
(* C5. Parse is total: ImageRef::parse returns a value without panicking   *)
(* for every input.  As claimed, an input whose remainder ends in '@'      *)
(* yields hash = Some("") with tag = None.                                 *)
(***************************************************************************)
C5_Original ==
    /\ stage # "panicked"
    /\ stage = "parsed" =>
          /\ ~parsed.panic
          /\ EndsWith(Remainder(input), "@") =>
                (parsed.hash = Some(<< >>) /\ parsed.tag = None)

(***************************************************************************)
(* C5, amended. Parse is total: ImageRef::parse returns a value without    *)
(* panicking for every input, and an input whose remainder has its first   *)
(* '@' as its last character yields hash = Some("") with tag = None.       *)
(***************************************************************************)
C5_ParseTotal ==
    /\ stage # "panicked"
    /\ stage = "parsed" =>
          /\ ~parsed.panic
          /\ (/\ HasChar(Remainder(input), "@")
              /\ FirstIdx(Remainder(input), "@") = Len(Remainder(input))) =>
                (parsed.hash = Some(<< >>) /\ parsed.tag = None)

\* an explicit registry followed by a bare '@'
C5_Witness ==
    /\ stage = "parsed"
    /\ HasExplicitRegistry(input)
    /\ Remainder(input) = <<"@">>
    /\ parsed.image = << >>
    /\ parsed.hash = Some(<< >>)
    /\ parsed.tag = None

(***************************************************************************)
(* C6. Tag and digest are mutually exclusive: exactly one of tag and hash  *)
(* is set; hash is set exactly when the remainder contains '@'; otherwise  *)
(* tag is the text after the first ':' of the remainder, or "latest" when  *)
(* the remainder has no ':'.                                               *)
(***************************************************************************)
C6_TagXorHash ==
    stage = "parsed" =>
        LET rem == Remainder(input)
        IN  /\ (parsed.tag = None) # (parsed.hash = None)
            /\ (parsed.hash # None) <=> HasChar(rem, "@")
            /\ ~HasChar(rem, "@") =>
                  parsed.tag = Some(IF HasChar(rem, ":") THEN TextAfter(rem, ":")
                                    ELSE Latest)

\* a digest after a ':', as in name:tag@digest
C6_Witness ==
    /\ stage = "parsed"
    /\ parsed.hash # None
    /\ parsed.tag = None
    /\ HasChar(Remainder(input), ":")
    /\ FirstIdx(Remainder(input), ":") < FirstIdx(Remainder(input), "@")

(***************************************************************************)
(* C7. Default-namespace injection, as claimed: the registry is set, and   *)
(* no parse result has registry = "docker.io" together with an image field *)
(* that contains no '/'.                                                   *)
(***************************************************************************)
C7_Original ==
    stage = "parsed" =>
        /\ parsed.registry # None
        /\ parsed.registry = Some(DockerIo) => HasChar(parsed.image, "/")

(***************************************************************************)
(* C7, amended. The registry is set, and whenever the registry is          *)
(* "docker.io" and the remainder (repository with its tag or digest) has   *)
(* no '/', the repository is prefixed with "library/"; so no parse result  *)
(* has registry = "docker.io" with no '/' in the image field nor in the    *)
(* tag or digest.                                                          *)
(***************************************************************************)
C7_NamespaceInjection ==
    stage = "parsed" =>
        /\ parsed.registry # None
        /\ (parsed.registry = Some(DockerIo) /\ ~HasChar(Remainder(input), "/")) =>
              parsed.image = LibrarySlash \o
                 (IF HasChar(Remainder(input), "@") THEN TextBefore(Remainder(input), "@")
                  ELSE IF HasChar(Remainder(input), ":") THEN TextBefore(Remainder(input), ":")
                  ELSE Remainder(input))
        /\ parsed.registry = Some(DockerIo) =>
              (HasChar(parsed.image, "/") \/ HasChar(Suffix(parsed), "/"))

\* an explicit docker.io registry in front of a single-segment repository
C7_Witness ==
    /\ stage = "parsed"
    /\ HasExplicitRegistry(input)
    /\ parsed.registry = Some(DockerIo)
    /\ ~HasChar(Remainder(input), "/")
    /\ parsed.image = LibrarySlash \o <<"a">>

(***************************************************************************)
(* C8. Repository is never empty, as claimed: for every non-empty input    *)
(* the image field of ImageRef::parse is a non-empty string.               *)
(***************************************************************************)
C8_Original ==
    (stage = "parsed" /\ input # << >>) => parsed.image # << >>

(***************************************************************************)
(* C8, amended. The image field is empty exactly when no "library/" prefix *)
(* is injected and the remainder after the registry is empty, begins with  *)
(* '@', or begins with ':' and has no '@'; in every other case, also for   *)
(* the empty input, it is non-empty.                                       *)
(***************************************************************************)
C8_RepositoryEmptiness ==
    stage = "parsed" =>
        LET rem == Remainder(input)
        IN  (parsed.image = << >>) <=>
               /\ ~NamespaceDue(input)
               /\ \/ rem = << >>
                  \/ rem # << >> /\ rem[1] = "@"
                  \/ rem # << >> /\ rem[1] = ":" /\ ~HasChar(rem, "@")

\* an explicit registry followed by only a tag
C8_Witness ==
    /\ stage = "parsed"
    /\ HasExplicitRegistry(input)
    /\ Remainder(input) # << >>
    /\ parsed.image = << >>
    /\ parsed.tag # None

(***************************************************************************)
(* C9. Registry detection: when the text before the first '/' is          *)
(* "localhost" or contains '.' or ':', the registry is exactly that text   *)
(* and repository, tag and digest are read from the text after the first   *)
(* '/'; in every other case the registry is "docker.io" and the whole      *)
(* input is the remainder.                                                 *)
(***************************************************************************)
C9_RegistryDetection ==
    stage = "parsed" =>
        LET q == Qualified(input)
        IN  /\ HasExplicitRegistry(input) =>
                  parsed.registry = Some(TextBefore(input, "/"))
            /\ ~HasExplicitRegistry(input) =>
                  parsed.registry = Some(DockerIo)
            /\ parsed.image = (IF HasChar(q, "@") THEN TextBefore(q, "@")
                               ELSE IF HasChar(q, ":") THEN TextBefore(q, ":")
                               ELSE q)
            /\ parsed.hash = (IF HasChar(q, "@") THEN Some(TextAfter(q, "@")) ELSE None)
            /\ parsed.tag = (IF HasChar(q, "@") THEN None
                             ELSE IF HasChar(q, ":") THEN Some(TextAfter(q, ":"))
                             ELSE Some(Latest))

\* a registry with a port in front of a nested repository with a tag
C9_Witness ==
    /\ stage = "parsed"
    /\ HasExplicitRegistry(input)
    /\ HasChar(parsed.registry[1], ":")
    /\ ~HasChar(parsed.registry[1], ".")
    /\ HasChar(parsed.image, "/")
    /\ parsed.tag # None
    /\ parsed.tag # Some(Latest)

(***************************************************************************)
(* Vocabulary of the properties of the pod mutation.                       *)
(***************************************************************************)
OptList(o) == IF o = None THEN << >> ELSE o[1]

\* the containers of a pod, init containers last
AllContainers(pod) ==
    pod.spec[1].containers \o OptList(pod.spec[1].init_containers)

InCtrs == AllContainers(request.pod)

OutCtrs == AllContainers(response.pod)

Mutated == response.kind = "mutate"

CanonicalOf(raw) == to_string(parse(raw))

IsPrefix(p, s) == Len(p) <= Len(s) /\ \A j \in 1..Len(p) : s[j] = p[j]

NoMatch(c, map) == \A k \in 1..Len(map) : ~IsPrefix(map[k].src, c)

\* the first pair of map, in its order, whose source is a prefix of c
FirstMatch(c, map) ==
    map[CHOOSE k \in 1..Len(map) :
            /\ IsPrefix(map[k].src, c)
            /\ \A j \in 1..(k - 1) : ~IsPrefix(map[j].src, c)]

OccursAt(s, from, i) ==
    /\ i + Len(from) - 1 <= Len(s)
    /\ \A j \in 1..Len(from) : s[i + j - 1] = from[j]

\* s from position i on, with every occurrence of from replaced by to
RECURSIVE ReplaceAllFrom(_, _, _, _)
ReplaceAllFrom(s, from, to, i) ==
    IF i > Len(s) THEN (IF from = << >> THEN to ELSE << >>)
    ELSE IF from = << >> THEN to \o <<s[i]>> \o ReplaceAllFrom(s, from, to, i + 1)
    ELSE IF OccursAt(s, from, i) THEN to \o ReplaceAllFrom(s, from, to, i + Len(from))
    ELSE <<s[i]>> \o ReplaceAllFrom(s, from, to, i + 1)

Rewritten(c, pair) == ReplaceAllFrom(c, pair.src, pair.dest, 1)

NumOccurrences(s, from) == Cardinality({i \in 1..Len(s) : OccursAt(s, from, i)})

C3_FirstMatchInGivenOrder ==
    Mutated =>
        \A i \in 1..Len(InCtrs) :
            (/\ InCtrs[i].image # None
             /\ ~NoMatch(CanonicalOf(InCtrs[i].image[1]), request.settings)) =>
                LET c == CanonicalOf(InCtrs[i].image[1])
                IN  OutCtrs[i].image = Some(Rewritten(c, FirstMatch(c, request.settings)))

(***************************************************************************)
(* C4. Matched rewrite: when a pair (src, dest) is selected because src is *)
(* a prefix of the canonical form c, the resulting image is c with every   *)
(* occurrence of src replaced by dest, and no other pair of the mapping is *)
(* applied, even if its source is a prefix of c or of the rewritten string.*)
(***************************************************************************)
C4_MatchedRewrite ==
    Mutated =>
        \A i \in 1..Len(InCtrs) :
            (InCtrs[i].image # None /\ ~NoMatch(CanonicalOf(InCtrs[i].image[1]), repos)) =>
                LET c == CanonicalOf(InCtrs[i].image[1])
                IN  OutCtrs[i].image = Some(Rewritten(c, FirstMatch(c, repos)))

\* the selected source occurs twice in the canonical form, and the source of
\* the pair after it is a prefix of the canonical form and of the result
C4_Witness ==
    /\ Mutated
    /\ Len(repos) = 2
    /\ repos[2].src # << >>
    /\ \E i \in 1..Len(InCtrs) :
          /\ InCtrs[i].image # None
          /\ LET c == CanonicalOf(InCtrs[i].image[1])
             IN  /\ IsPrefix(repos[1].src, c)
                 /\ NumOccurrences(c, repos[1].src) >= 2
                 /\ IsPrefix(repos[2].src, c)
                 /\ IsPrefix(repos[2].src, OutCtrs[i].image[1])
                 /\ OutCtrs[i].image = Some(Rewritten(c, repos[1]))

(***************************************************************************)
(* C10. Frame of the pod mutation: mutate_pod returns containers and       *)
(* init_containers lists of the same length and order as the input, each   *)
(* container equal to the input container at its position in every field   *)
(* except possibly image; a container's new image depends only on its own  *)
(* image string and the mapping; an absent image stays absent and an       *)
(* absent init_containers list stays absent.                               *)
(***************************************************************************)
SameFrame(ins, outs) ==
    /\ Len(outs) = Len(ins)
    /\ \A i \in 1..Len(ins) :
          /\ outs[i].name = ins[i].name
          /\ DOMAIN outs[i] = DOMAIN ins[i]
          /\ (ins[i].image = None) <=> (outs[i].image = None)

C10_Frame ==
    Mutated =>
        LET ispec == request.pod.spec[1]
            ospec == response.pod.spec[1]
        IN  /\ response.pod.spec # None
            /\ SameFrame(ispec.containers, ospec.containers)
            /\ (ispec.init_containers = None) <=> (ospec.init_containers = None)
            /\ SameFrame(OptList(ispec.init_containers), OptList(ospec.init_containers))
            /\ \A i, j \in 1..Len(InCtrs) :
                  InCtrs[i].image = InCtrs[j].image => OutCtrs[i].image = OutCtrs[j].image

\* two containers and an init container, one without an image, one rewritten
C10_Witness ==
    /\ Mutated
    /\ Len(request.pod.spec[1].containers) = 2
    /\ request.pod.spec[1].init_containers # None
    /\ Len(request.pod.spec[1].init_containers[1]) = 1
    /\ request.pod.spec[1].containers[1].image = None
    /\ request.pod.spec[1].containers[2].image # None
    /\ response.pod.spec[1].containers[2].image # request.pod.spec[1].containers[2].image
    /\ response.pod.spec[1].init_containers[1][1].image
          = response.pod.spec[1].containers[2].image

====
